---- MODULE Spec2Model ----
(***************************************************************************)
(* TrustLayer escrow lifecycle: the off-chain escrow service               *)
(* (src/src/services/escrow/escrow.js, a SQLite table of escrows and an    *)
(* append-only table of events, swept by a cron job) and the ClawVault     *)
(* contract (src/unnamed/part_002) that holds the same lifecycle on chain. *)
(* The routes choose one of the two once, at startup (useOnChain).         *)
(*                                                                         *)
(* Time is counted in ticks; TicksPerDay ticks make one calendar day.      *)
(* Timestamps that the code stores as text are modelled as the text's      *)
(* fields <<day, separator, time of day>>, compared as SQLite compares     *)
(* text: field by field, the separator by its character code.              *)
(***************************************************************************)
EXTENDS Integers, Sequences, FiniteSets, TLC

\* ------------------------------------------------------------------ bounds
MaxTime == 3
TicksPerDay == 2
MaxEscrows == 1
MaxDeadline == 2
MaxWindow == 2
InitialBalance == 202
SweepRows == 2
MaxRequests == 2
MaxSentinelRuns == 2

\* ------------------------------------------------------------- input sets
Buyers == {"alice"}
Sellers == {"bob"}
Callers == {"alice", "bob", "arb", "mallory"}
Disputers == {"alice", "bob"}
Amounts == {100}
DeadlineChoices == 1..MaxDeadline
EscrowIds == 1..MaxEscrows
Winners == {"buyer", "seller", "mallory"}

VARIABLES
    useOnChain,   \* part_000:205  const useOnChain = !!config.escrowContract
    now,          \* the clock: Date.now(), datetime('now'), block.timestamp
    escrows,      \* escrow.js: table escrows, rows in insertion order
    events,       \* escrow.js: table escrow_events, the rows of each escrow_id in
                  \* insertion order (what getEscrowEvents(id) reads)
    vaultEscrows, \* ClawVault: mapping(uint256 => Escrow) escrows
    nextEscrowId, \* ClawVault: uint256 nextEscrowId
    usdc,         \* the token's balances, by holder
    arbiter,      \* ClawVault: address arbiter
    feeRecipient, \* ClawVault: address feeRecipient
    feeBps,       \* ClawVault: uint256 feeBps
    totalVolumeUsdc,    \* ClawVault: uint256 totalVolumeUsdc
    totalFeesCollected, \* ClawVault: uint256 totalFeesCollected
    requests,     \* index.js: the requests the payment middleware has received, each
                  \* with how far it got and what was answered
    sentinelRuns, \* index.js: how many times sentinelJob has fired
    inFlight,     \* sentinel.js: per service, the pings whose fetch has not come back
    pings,        \* sentinel.js: table pings, rows in insertion order
    incidents     \* sentinel.js: table incidents, rows in insertion order

offVars == <<escrows, events>>
chainVars == <<vaultEscrows, nextEscrowId, usdc, arbiter, feeRecipient, feeBps,
               totalVolumeUsdc, totalFeesCollected>>
escrowVars == <<useOnChain, offVars, chainVars>>
payVars == <<requests>>
sentinelVars == <<sentinelRuns, inFlight, pings, incidents>>
vars == <<useOnChain, now, escrows, events, vaultEscrows, nextEscrowId, usdc,
          arbiter, feeRecipient, feeBps, totalVolumeUsdc, totalFeesCollected, requests,
          sentinelRuns, inFlight, pings, incidents>>

\* ------------------------------------------------------- text timestamps
\* Character codes of the separators between the date and the time of day.
SepSpace == 32
SepT == 84

\* new Date(ms).toISOString(): "YYYY-MM-DDTHH:MM:SS.mmmZ"
toISOString(t) == <<t \div TicksPerDay, SepT, t % TicksPerDay>>

\* SQLite datetime(...): "YYYY-MM-DD HH:MM:SS"
datetime(t) == <<t \div TicksPerDay, SepSpace, t % TicksPerDay>>

\* The instant a stored timestamp text denotes.
ParseTime(s) == s[1] * TicksPerDay + s[3]

\* SQLite's < on TEXT values (BINARY collation): lexicographic.
TextLess(a, b) ==
    \/ a[1] < b[1]
    \/ a[1] = b[1] /\ a[2] < b[2]
    \/ a[1] = b[1] /\ a[2] = b[2] /\ a[3] < b[3]

\* ------------------------------------------------------------ the store
NotFound == [status |-> "NotFound"]
Null == "null"

\* The two tables, as a handler reads and writes them.
Store == [escrows |-> escrows, events |-> events]

\* SELECT * FROM escrows WHERE id = ?
Row(st, escrowId) ==
    IF escrowId \in 1..Len(st.escrows) THEN st.escrows[escrowId] ELSE NotFound

getEscrow(escrowId) == Row(Store, escrowId)

getEscrowEvents(escrowId) ==
    IF escrowId \in 1..Len(events) THEN events[escrowId] ELSE <<>>

\* INSERT INTO escrow_events (escrow_id, event_type, actor, data)
logEvent(evs, escrowId, eventType, actor) ==
    [evs EXCEPT ![escrowId] = Append(@, [event_type |-> eventType, actor |-> actor])]

\* UPDATE escrows SET status = ?, updated_at = datetime('now') WHERE id = ?
SetStatus_touchesDeadline(rows, escrowId, status) ==
    [rows EXCEPT ![escrowId].status = status, ![escrowId].updated_at = datetime(now),
                 ![escrowId].deadline = datetime(now)]

SetStatus(rows, escrowId, status) ==
    [rows EXCEPT ![escrowId].status = status, ![escrowId].updated_at = datetime(now)]

\* The outcome of one call of a handler on the tables st: what it answers (res: "ok"
\* or the message of the Error it throws; pay: the party the answer tells the operator
\* to pay, "none" for nobody) and the tables as the call leaves them.
Throw_swallowed(st, msg) ==
    [res |-> "ok", pay |-> "none", escrows |-> st.escrows, events |-> st.events]

Throw(st, msg) ==
    [res |-> msg, pay |-> "none", escrows |-> st.escrows, events |-> st.events]

Return(rows, evs, pay) == [res |-> "ok", pay |-> pay, escrows |-> rows, events |-> evs]

\* The handler runs to completion on Node's single thread: one atomic step. (The
\* binding to a one-element set makes TLC compute the outcome once.)
Apply(out) ==
    \E done \in {out} :
        /\ escrows' = done.escrows
        /\ events' = done.events
        /\ UNCHANGED <<useOnChain, now, chainVars, payVars, sentinelVars>>

\* part_000: if (useOnChain) return res.json(build...Tx(...)); only the off-chain
\* fallback of a route reaches the handlers of escrow.js.
offChainFallback_anyMode == TRUE

offChainFallback == ~useOnChain

\* ------------------------------------------------- escrow.js: lifecycle
createEscrowCall(st, buyerAddress, sellerAddress, amountUsdc, deadlineHours) ==
    LET id == Len(st.escrows) + 1
        deadline == toISOString(now + deadlineHours)
        row == [buyer_address |-> buyerAddress, seller_address |-> sellerAddress,
                amount_usdc |-> amountUsdc, service_description |-> "a service",
                acceptance_criteria |-> Null, deadline |-> deadline,
                status |-> "created", deposit_tx |-> Null, dispute_reason |-> Null,
                resolution |-> Null, updated_at |-> datetime(now)]
    IN Return(Append(st.escrows, row),
              logEvent(Append(st.events, <<>>), id, "created", buyerAddress),
              "none")

createEscrow(buyerAddress, sellerAddress, amountUsdc, deadlineHours) ==
    /\ offChainFallback
    /\ Len(escrows) < MaxEscrows
    /\ Apply(createEscrowCall(Store, buyerAddress, sellerAddress, amountUsdc, deadlineHours))

fundAllowed_alsoFunded(esc) == esc.status \in {"created", "funded"}

fundAllowed(esc) == esc.status = "created"

fundEscrowCall(st, escrowId, depositTxHash) ==
    LET esc == Row(st, escrowId) IN
    IF esc = NotFound THEN Throw(st, "Escrow not found")
    ELSE IF ~fundAllowed(esc) THEN Throw(st, "Cannot fund")
    ELSE Return([SetStatus(st.escrows, escrowId, "funded")
                    EXCEPT ![escrowId].deposit_tx = depositTxHash],
                logEvent(st.events, escrowId, "funded", esc.buyer_address),
                "none")

fundEscrow(escrowId, depositTxHash) ==
    offChainFallback /\ Apply(fundEscrowCall(Store, escrowId, depositTxHash))

deliverAllowed(esc) == esc.status = "funded"

deliverEscrowCall(st, escrowId, deliveryProof) ==
    LET esc == Row(st, escrowId) IN
    IF esc = NotFound THEN Throw(st, "Escrow not found")
    ELSE IF ~deliverAllowed(esc) THEN Throw(st, "Cannot deliver")
    ELSE Return(SetStatus(st.escrows, escrowId, "delivered"),
                logEvent(st.events, escrowId, "delivered", esc.seller_address),
                "none")

deliverEscrow(escrowId, deliveryProof) ==
    offChainFallback /\ Apply(deliverEscrowCall(Store, escrowId, deliveryProof))

acceptAllowed_alsoDisputed(esc) == esc.status \in {"delivered", "disputed"}

acceptAllowed_alsoCompleted(esc) == esc.status \in {"delivered", "completed"}

acceptAllowed(esc) == esc.status = "delivered"

acceptEscrowCall(st, escrowId) ==
    LET esc == Row(st, escrowId) IN
    IF esc = NotFound THEN Throw(st, "Escrow not found")
    ELSE IF ~acceptAllowed(esc) THEN Throw(st, "Cannot accept")
    ELSE Return(SetStatus(st.escrows, escrowId, "completed"),
                logEvent(st.events, escrowId, "completed", esc.buyer_address),
                esc.seller_address)

acceptEscrow(escrowId) ==
    offChainFallback /\ Apply(acceptEscrowCall(Store, escrowId))

disputeAllowed_alsoCompleted(esc) == esc.status \in {"funded", "delivered", "completed"}

disputeAllowed(esc) == esc.status \in {"funded", "delivered"}

disputeEscrowCall(st, escrowId, disputerAddress, reason) ==
    LET esc == Row(st, escrowId) IN
    IF esc = NotFound THEN Throw(st, "Escrow not found")
    ELSE IF ~disputeAllowed(esc) THEN Throw(st, "Cannot dispute")
    ELSE Return([SetStatus(st.escrows, escrowId, "disputed")
                    EXCEPT ![escrowId].dispute_reason = reason],
                logEvent(st.events, escrowId, "disputed", disputerAddress),
                "none")

disputeEscrow(escrowId, disputerAddress, reason) ==
    offChainFallback /\ Apply(disputeEscrowCall(Store, escrowId, disputerAddress, reason))

resolveAllowed_alsoRefunded(esc) == esc.status \in {"disputed", "refunded"}

resolveAllowed(esc) == esc.status = "disputed"

\* const newStatus = winner === "buyer" ? "refunded" : "completed"
resolvedStatus_resolved(esc, winner) == "resolved"

resolvedStatus(esc, winner) == IF winner = "buyer" THEN "refunded" ELSE "completed"

resolveDisputeCall(st, escrowId, resolution, winner) ==
    LET esc == Row(st, escrowId) IN
    IF esc = NotFound THEN Throw(st, "Escrow not found")
    ELSE IF ~resolveAllowed(esc) THEN Throw(st, "Cannot resolve")
    ELSE Return([SetStatus(st.escrows, escrowId, resolvedStatus(esc, winner))
                    EXCEPT ![escrowId].resolution = resolution],
                logEvent(st.events, escrowId, "resolved", "trustlayer"),
                IF winner = "buyer" THEN esc.buyer_address ELSE esc.seller_address)

resolveDispute(escrowId, resolution, winner) ==
    offChainFallback /\ Apply(resolveDisputeCall(Store, escrowId, resolution, winner))

\* ----------------------------------------------- escrow.js: the sweeper
\* SELECT ... WHERE status = 'delivered' AND updated_at < datetime('now', '-1 day')
autoReleaseDue_reversed(esc) ==
    /\ esc.status = "delivered"
    /\ TextLess(datetime(now - TicksPerDay), esc.updated_at)

autoReleaseDue(esc) ==
    /\ esc.status = "delivered"
    /\ TextLess(esc.updated_at, datetime(now - TicksPerDay))

\* SELECT ... WHERE status = 'funded' AND deadline < datetime('now')
autoRefundDue_alsoRefunded(esc) ==
    /\ esc.status \in {"funded", "refunded"}
    /\ TextLess(esc.deadline, datetime(now))

autoRefundDue(esc) ==
    /\ esc.status = "funded"
    /\ TextLess(esc.deadline, datetime(now))

\* .all(): the ids a query selects, in row order.
RECURSIVE all(_)
all(ids) ==
    IF ids = {} THEN <<>>
    ELSE LET first == CHOOSE i \in ids : \A j \in ids : i <= j
         IN <<first>> \o all(ids \ {first})

autoRelease(rows) == all({i \in 1..Len(rows) : autoReleaseDue(rows[i])})

autoRefund(rows) == all({i \in 1..Len(rows) : autoRefundDue(rows[i])})

\* for (const esc of autoRelease) { acceptEscrow(esc.id); logEvent(auto_completed) }
\* Nothing in the loop catches: an Error thrown while an escrow is processed (by
\* acceptEscrow, or by the store for the ids in failing) ends the loop and the run, and
\* res is its message.
RECURSIVE releaseLoop(_, _, _)
releaseLoop(st, ids, failing) ==
    IF ids = <<>> THEN Return(st.escrows, st.events, "none")
    ELSE IF Head(ids) \in failing THEN Throw(st, "StoreUnavailable")
    ELSE CHOOSE out \in
             {IF a.res # "ok" THEN a
              ELSE releaseLoop([escrows |-> a.escrows,
                                events |-> logEvent(a.events, Head(ids), "auto_completed",
                                                    "system")],
                               Tail(ids), failing) :
              a \in {acceptEscrowCall(st, Head(ids))}} : TRUE

\* for (const esc of autoRefund) { UPDATE ... 'refunded'; logEvent(auto_refunded) }
RECURSIVE refundLoop(_, _, _)
refundLoop(st, ids, failing) ==
    IF ids = <<>> THEN Return(st.escrows, st.events, "none")
    ELSE IF Head(ids) \in failing THEN Throw(st, "StoreUnavailable")
    ELSE CHOOSE out \in
             {refundLoop(updated, Tail(ids), failing) :
              updated \in {[escrows |-> SetStatus(st.escrows, Head(ids), "refunded"),
                            events |-> logEvent(st.events, Head(ids), "auto_refunded",
                                                "system")]}} : TRUE

\* The tables as one run of the sweeper leaves them, the store failing on the escrows
\* in failing.
processExpiredEscrowsRun(st, failing) ==
    CHOOSE out \in
        {IF released.res # "ok" THEN released
         ELSE refundLoop(released, autoRefund(released.escrows), failing) :
         released \in {releaseLoop(st, autoRelease(st.escrows), failing)}} : TRUE

\* A run on a store that does not fail.
processExpiredEscrowsCall(st) == processExpiredEscrowsRun(st, {})

\* index.js escrowJob: the cron job calls processExpiredEscrows and logs what it throws.
processExpiredEscrows ==
    /\ Apply(processExpiredEscrowsCall(Store))

\* SUM(CASE WHEN status IN (...) THEN 1 ELSE 0 END): NULL on a table with no rows.
SumCase(rows, statuses) ==
    IF rows = <<>> THEN Null
    ELSE Cardinality({i \in 1..Len(rows) : rows[i].status \in statuses})

\* getEscrowStats: SELECT COUNT(*) as total, SUM(...) as completed, ... FROM escrows
getEscrowStats(rows) ==
    [total |-> Len(rows),
     completed |-> SumCase(rows, {"completed"}),
     disputed |-> SumCase(rows, {"disputed"}),
     refunded |-> SumCase(rows, {"refunded"}),
     active |-> SumCase(rows, {"created", "funded", "delivered"})]

\* ------------------------------------------------ ClawVault (part_002)
FEE_BPS == 100
MAX_FEE == 500
MIN_ACCEPTANCE_WINDOW == 1
MAX_ACCEPTANCE_WINDOW == 7 * TicksPerDay
MIN_DEADLINE == 1
MAX_DEADLINE == 90 * TicksPerDay

AddressZero == "0x0"
Vault == "vault"
VaultIds == 0..(MaxEscrows - 1)
VaultSellers == Sellers \cup Buyers \cup {AddressZero}
VaultAmounts == Amounts \cup {0}
WindowChoices == 0..MaxWindow
Holders == Callers \cup {Vault, "fee"}

\* The value of escrows[_id] for an id never written: every field zero.
ZeroEscrow ==
    [buyer |-> AddressZero, seller |-> AddressZero, amount |-> 0, fee |-> 0,
     deliveryHash |-> Null, deadline |-> 0, deliveredAt |-> 0, acceptanceWindow |-> 0,
     status |-> "Active", disputeReason |-> ""]

\* The outcome of one transaction: res is "ok" or the reason of the revert, pay the
\* party the escrowed amount went to ("none": nobody), and the contract's storage and
\* the token's balances as the transaction leaves them.
Revert(msg) ==
    [res |-> msg, pay |-> "none", vaultEscrows |-> vaultEscrows,
     nextEscrowId |-> nextEscrowId, usdc |-> usdc,
     totalVolumeUsdc |-> totalVolumeUsdc, totalFeesCollected |-> totalFeesCollected]

\* A lifecycle function that ran to its end on escrow id.
Commit(id, e, bal, fees, pay) ==
    [res |-> "ok", pay |-> pay, vaultEscrows |-> [vaultEscrows EXCEPT ![id] = e],
     nextEscrowId |-> nextEscrowId, usdc |-> bal,
     totalVolumeUsdc |-> totalVolumeUsdc, totalFeesCollected |-> fees]

\* A transaction is atomic: all of its writes or, on revert, none.
ApplyTx(out) ==
    /\ vaultEscrows' = out.vaultEscrows
    /\ nextEscrowId' = out.nextEscrowId
    /\ usdc' = out.usdc
    /\ totalVolumeUsdc' = out.totalVolumeUsdc
    /\ totalFeesCollected' = out.totalFeesCollected
    /\ UNCHANGED <<useOnChain, now, offVars, arbiter, feeRecipient, feeBps, payVars, sentinelVars>>

\* IERC20.safeTransfer(to, amount) from the contract's own balance.
safeTransfer(bal, to, amount) ==
    [bal EXCEPT ![Vault] = @ - amount, ![to] = bal[to] + amount]

\* modifier onlyBuyer(_id): require(msg.sender == escrows[_id].buyer, "Not buyer")
onlyBuyer(sender, _id) == sender = vaultEscrows[_id].buyer

\* modifier onlySeller(_id): require(msg.sender == escrows[_id].seller, "Not seller")
onlySeller_anyCaller(sender, _id) == sender \in Callers

onlySeller(sender, _id) == sender = vaultEscrows[_id].seller

\* modifier onlyArbiter(): require(msg.sender == arbiter, "Not arbiter")
onlyArbiter(sender) == sender = arbiter

\* uint256 fee = (_amount * feeBps) / 10000
protocolFee_perMille(_amount) == (_amount * feeBps) \div 1000

protocolFee(_amount) == (_amount * feeBps) \div 10000

\* usdc.safeTransfer(e.buyer, e.amount + e.fee): what a refund sends to the buyer.
refundSum_amountOnly(e) == e.amount

refundSum(e) == e.amount + e.fee

paySeller_feeNotSent(bal, e) == safeTransfer(bal, e.seller, e.amount)

paySeller_feeTwice(bal, e) ==
    safeTransfer(safeTransfer(bal, e.seller, e.amount), feeRecipient, 2 * e.fee)

paySeller_netOfFee(bal, e) ==
    safeTransfer(safeTransfer(bal, e.seller, e.amount - e.fee), feeRecipient, e.fee)

\* Pay seller, then pay the protocol fee (acceptDelivery, claimByTimeout, resolveDispute).
paySeller(bal, e) ==
    IF e.fee > 0 THEN safeTransfer(safeTransfer(bal, e.seller, e.amount), feeRecipient, e.fee)
    ELSE safeTransfer(bal, e.seller, e.amount)

vaultCreateEscrowCall(sender, _seller, _amount, _deadlineSeconds, _acceptanceWindowSeconds) ==
    LET fee == protocolFee(_amount)
        total == _amount + fee
        escrowId == nextEscrowId
    IN
    IF _seller = AddressZero \/ _seller = sender THEN Revert("Invalid seller")
    ELSE IF ~(_amount > 0) THEN Revert("Amount must be > 0")
    ELSE IF ~(_deadlineSeconds >= MIN_DEADLINE) THEN Revert("Deadline too short")
    ELSE IF ~(_deadlineSeconds <= MAX_DEADLINE) THEN Revert("Deadline too long")
    ELSE IF ~(/\ _acceptanceWindowSeconds >= MIN_ACCEPTANCE_WINDOW
              /\ _acceptanceWindowSeconds <= MAX_ACCEPTANCE_WINDOW)
    THEN Revert("Invalid acceptance window")
    ELSE IF usdc[sender] < total THEN Revert("Transfer failed")
    ELSE [res |-> "ok", pay |-> "none",
          vaultEscrows |-> [vaultEscrows EXCEPT ![escrowId] =
              [buyer |-> sender, seller |-> _seller, amount |-> _amount, fee |-> fee,
               deliveryHash |-> Null, deadline |-> now + _deadlineSeconds,
               deliveredAt |-> 0, acceptanceWindow |-> _acceptanceWindowSeconds,
               status |-> "Active", disputeReason |-> ""]],
          nextEscrowId |-> nextEscrowId + 1,
          usdc |-> [usdc EXCEPT ![sender] = @ - total, ![Vault] = @ + total],
          totalVolumeUsdc |-> totalVolumeUsdc + _amount,
          totalFeesCollected |-> totalFeesCollected]

vaultCreateEscrow(sender, _seller, _amount, _deadlineSeconds, _acceptanceWindowSeconds) ==
    /\ useOnChain
    /\ nextEscrowId < MaxEscrows
    /\ ApplyTx(vaultCreateEscrowCall(sender, _seller, _amount, _deadlineSeconds,
                                     _acceptanceWindowSeconds))

markDeliveredCall(sender, _escrowId, _deliveryHash) ==
    LET e == vaultEscrows[_escrowId] IN
    IF ~onlySeller(sender, _escrowId) THEN Revert("Not seller")
    ELSE IF e.status # "Active" THEN Revert("Not active")
    ELSE IF ~(now <= e.deadline) THEN Revert("Deadline passed")
    ELSE IF _deliveryHash = Null THEN Revert("Empty proof")
    ELSE Commit(_escrowId,
                [e EXCEPT !.deliveryHash = _deliveryHash, !.deliveredAt = now,
                          !.status = "Delivered"],
                usdc, totalFeesCollected, "none")

markDelivered(sender, _escrowId, _deliveryHash) ==
    useOnChain /\ ApplyTx(markDeliveredCall(sender, _escrowId, _deliveryHash))

acceptDeliveryCall(sender, _escrowId) ==
    LET e == vaultEscrows[_escrowId] IN
    IF ~onlyBuyer(sender, _escrowId) THEN Revert("Not buyer")
    ELSE IF e.status # "Delivered" THEN Revert("Not delivered")
    ELSE Commit(_escrowId, [e EXCEPT !.status = "Completed"],
                paySeller(usdc, e), totalFeesCollected + e.fee, e.seller)

acceptDelivery(sender, _escrowId) ==
    useOnChain /\ ApplyTx(acceptDeliveryCall(sender, _escrowId))

openDisputeCall(sender, _escrowId, _reason) ==
    LET e == vaultEscrows[_escrowId] IN
    IF ~onlyBuyer(sender, _escrowId) THEN Revert("Not buyer")
    ELSE IF e.status # "Delivered" THEN Revert("Not delivered")
    ELSE IF ~(now <= e.deliveredAt + e.acceptanceWindow)
    THEN Revert("Acceptance window expired")
    ELSE IF ~(Len(_reason) > 0) THEN Revert("Reason required")
    ELSE Commit(_escrowId, [e EXCEPT !.status = "Disputed", !.disputeReason = _reason],
                usdc, totalFeesCollected, "none")

openDispute(sender, _escrowId, _reason) ==
    useOnChain /\ ApplyTx(openDisputeCall(sender, _escrowId, _reason))

vaultResolveDisputeCall(sender, _escrowId, _buyerWins) ==
    LET e == vaultEscrows[_escrowId] IN
    IF ~onlyArbiter(sender) THEN Revert("Not arbiter")
    ELSE IF e.status # "Disputed" THEN Revert("Not disputed")
    ELSE IF _buyerWins
    THEN Commit(_escrowId, [e EXCEPT !.status = "Resolved"],
                safeTransfer(usdc, e.buyer, refundSum(e)), totalFeesCollected, e.buyer)
    ELSE Commit(_escrowId, [e EXCEPT !.status = "Resolved"],
                paySeller(usdc, e), totalFeesCollected + e.fee, e.seller)

vaultResolveDispute(sender, _escrowId, _buyerWins) ==
    useOnChain /\ ApplyTx(vaultResolveDisputeCall(sender, _escrowId, _buyerWins))

\* require(block.timestamp > e.deadline, "Deadline not passed")
deadlinePassed_always(e) == TRUE

deadlinePassed_inclusive(e) == now >= e.deadline

deadlinePassed(e) == now > e.deadline

reclaimExpiredCall(sender, _escrowId) ==
    LET e == vaultEscrows[_escrowId] IN
    IF ~onlyBuyer(sender, _escrowId) THEN Revert("Not buyer")
    ELSE IF e.status # "Active" THEN Revert("Not active")
    ELSE IF ~deadlinePassed(e) THEN Revert("Deadline not passed")
    ELSE Commit(_escrowId, [e EXCEPT !.status = "Refunded"],
                safeTransfer(usdc, e.buyer, refundSum(e)), totalFeesCollected, e.buyer)

reclaimExpired(sender, _escrowId) ==
    useOnChain /\ ApplyTx(reclaimExpiredCall(sender, _escrowId))

\* require(block.timestamp > e.deliveredAt + e.acceptanceWindow, "... not expired")
windowExpired_inclusive(e) == now >= e.deliveredAt + e.acceptanceWindow

windowExpired(e) == now > e.deliveredAt + e.acceptanceWindow

claimByTimeoutCall(sender, _escrowId) ==
    LET e == vaultEscrows[_escrowId] IN
    IF ~onlySeller(sender, _escrowId) THEN Revert("Not seller")
    ELSE IF e.status # "Delivered" THEN Revert("Not delivered")
    ELSE IF ~windowExpired(e) THEN Revert("Acceptance window not expired")
    ELSE Commit(_escrowId, [e EXCEPT !.status = "Completed"],
                paySeller(usdc, e), totalFeesCollected + e.fee, e.seller)

claimByTimeout(sender, _escrowId) ==
    useOnChain /\ ApplyTx(claimByTimeoutCall(sender, _escrowId))

\* ------------------------------------- index.js: the x402 payment middleware
\* const PAID_ROUTES = { ... }
PAID_ROUTES ==
    {"POST /api/v1/skill/scan", "POST /api/v1/skill/verify", "POST /api/v1/qa/test",
     "POST /api/v1/qa/full", "POST /api/v1/qa/adversarial", "GET /api/v1/sla/report",
     "POST /api/v1/escrow/create", "POST /api/v1/escrow/dispute"}

\* The requests made: to a paid route and to a free one, with the two headers the
\* middleware reads each absent, empty or carrying a signature.
RequestIds == 1..MaxRequests
Routes == {"POST /api/v1/skill/scan", "GET /api/v1/health"}
Undefined == "undefined"
HeaderValues == {Undefined, "", "sig"}
Headers == [xPayment : HeaderValues, paymentSignature : HeaderValues]

\* What the facilitator does with a call: it cannot be reached (fetch throws), it
\* answers with a status that is not ok, it answers ok with a body that is not JSON,
\* or it answers ok with a JSON body, which for /verify may say valid: false, say
\* valid: true or have no valid field.
VerifyReplies == {"unreachable", "notOk", "notJson", "validFalse", "validTrue", "noValid"}
SettleReplies == {"unreachable", "notOk", "notJson", "ok"}

\* A request the middleware has not seen yet.
NoRequest ==
    [pc |-> "none", route |-> "", paymentHeader |-> Undefined, calls |-> <<>>,
     replies |-> <<>>, status |-> 0, error |-> "", handled |-> FALSE]

NoRequests == requests = [r \in RequestIds |-> NoRequest]

\* JavaScript's falsy, for a header value.
Falsy(v) == v \in {Undefined, ""}

\* req.headers["x-payment"] || req.headers["payment-signature"]
paymentHeaderOf(headers) ==
    IF Falsy(headers.xPayment) THEN headers.paymentSignature ELSE headers.xPayment

\* next(): the request goes on to the routes, whose handler answers it.
next(req) == [req EXCEPT !.pc = "done", !.handled = TRUE, !.status = 200]

\* return res.status(status).json({ error, ... })
respond(req, status, error) ==
    [req EXCEPT !.pc = "done", !.status = status, !.error = error]

\* await fetch(facilitatorUrl + "/" + call, ...): the facilitator is contacted and the
\* middleware waits for what comes back.
fetchFacilitator(req, call) == [req EXCEPT !.pc = call, !.calls = Append(@, call)]

\* if (!paymentHeader) return res.status(402).json(paymentRequired)
noPayment_viaFacilitator(req) == fetchFacilitator(req, "verify")

noPayment(req) == respond(req, 402, "")

\* The middleware from the arrival of a request to its first await. Its catch (503) is
\* never reached: verifyPayment and settlePayment catch what they throw, and
\* buildPaymentRequired throws nothing on the prices of config.js.
onRequest(route, headers) ==
    LET req == [NoRequest EXCEPT !.route = route,
                                 !.paymentHeader = paymentHeaderOf(headers)]
    IN IF route \notin PAID_ROUTES THEN next(req)
       ELSE IF Falsy(req.paymentHeader) THEN noPayment(req)
       ELSE fetchFacilitator(req, "verify")

\* verifyPayment: { valid: false } when fetch or res.json() throws or !res.ok,
\* otherwise { valid: result.valid !== false }.
verifyPayment(reply) ==
    IF reply \in {"unreachable", "notJson"}
    THEN [valid |-> FALSE, error |-> "Facilitator unreachable"]
    ELSE IF reply = "notOk" THEN [valid |-> FALSE, error |-> "Facilitator status"]
    ELSE [valid |-> reply # "validFalse", error |-> ""]

\* settlePayment: { settled: false } when fetch or res.json() throws or !res.ok,
\* otherwise { settled: true }.
settlePayment_ignoresReply(reply) == [settled |-> TRUE, error |-> ""]

settlePayment(reply) ==
    IF reply \in {"unreachable", "notJson"}
    THEN [settled |-> FALSE, error |-> "Settlement error"]
    ELSE IF reply = "notOk" THEN [settled |-> FALSE, error |-> "Settlement status"]
    ELSE [settled |-> TRUE, error |-> ""]

\* The middleware from the return of verifyPayment to its next await.
afterVerify(req, reply) ==
    LET seen == [req EXCEPT !.replies = Append(@, reply)]
    IN IF ~verifyPayment(reply).valid
       THEN respond(seen, 402, "Payment verification failed")
       ELSE fetchFacilitator(seen, "settle")

\* The middleware from the return of settlePayment to its end.
afterSettle(req, reply) ==
    LET seen == [req EXCEPT !.replies = Append(@, reply)]
    IN IF ~settlePayment(reply).settled
       THEN respond(seen, 402, "Payment settlement failed")
       ELSE next(seen)

\* A request arrives.
receive(r, route, headers) ==
    /\ requests[r].pc = "none"
    /\ requests' = [requests EXCEPT ![r] = onRequest(route, headers)]
    /\ UNCHANGED <<now, escrowVars, sentinelVars>>

\* The call of /verify made for request r comes back.
verifyReturns(r, reply) ==
    /\ requests[r].pc = "verify"
    /\ requests' = [requests EXCEPT ![r] = afterVerify(@, reply)]
    /\ UNCHANGED <<now, escrowVars, sentinelVars>>

\* The call of /settle made for request r comes back.
settleReturns(r, reply) ==
    /\ requests[r].pc = "settle"
    /\ requests' = [requests EXCEPT ![r] = afterSettle(@, reply)]
    /\ UNCHANGED <<now, escrowVars, sentinelVars>>

\* ------------------------------------------------ sentinel.js: incidents
\* SELECT * FROM services WHERE is_active = 1: two registered services.
Services == {1, 2}

\* What comes back from the fetch of a ping: 0 when fetch throws or times out,
\* otherwise the HTTP status of the answer.
StatusCodes == {0, 200, 503}

NoPings ==
    /\ sentinelRuns = 0
    /\ inFlight = [s \in Services |-> 0]
    /\ pings = <<>>
    /\ incidents = <<>>

\* isUp = statusCode >= 200 && statusCode < 500 ? 1 : 0; 0 when fetch throws.
isUpOf(statusCode) == IF statusCode >= 200 /\ statusCode < 500 THEN 1 ELSE 0

\* The rows of incidents of a service that are open (ended_at IS NULL), by id.
OpenIncidents(incs, serviceId) ==
    {i \in 1..Len(incs) : incs[i].service_id = serviceId /\ incs[i].ended_at = Null}

\* getOpenIncident.get(serviceId): ... ORDER BY started_at DESC LIMIT 1, 0 for no row.
\* Among rows started at the same second the latest inserted is taken.
getOpenIncident(incs, serviceId) ==
    LET open == OpenIncidents(incs, serviceId)
    IN IF open = {} THEN 0
       ELSE CHOOSE i \in open :
                \A j \in open :
                    \/ TextLess(incs[j].started_at, incs[i].started_at)
                    \/ (incs[j].started_at = incs[i].started_at /\ j <= i)

\* if (!isUp && !existing)
shouldOpen_ignoresExisting(isUp, existing) == isUp = 0

shouldOpen(isUp, existing) == isUp = 0 /\ existing = 0

\* else if (isUp && existing)
shouldClose(isUp, existing) == isUp # 0 /\ existing # 0

\* handleIncidentDetection(serviceId, isUp): the table incidents as it leaves it.
handleIncidentDetection(incs, serviceId, isUp) ==
    LET existing == getOpenIncident(incs, serviceId)
    IN IF shouldOpen(isUp, existing)
       THEN Append(incs, [service_id |-> serviceId, started_at |-> datetime(now),
                          ended_at |-> Null])
       ELSE IF shouldClose(isUp, existing)
       THEN [incs EXCEPT ![existing].ended_at = datetime(now)]
       ELSE incs

\* sentinelJob: pingAllServices() calls pingService for every service, and each call
\* runs up to its await fetch(service.url).
pingAllServices ==
    /\ sentinelRuns < MaxSentinelRuns
    /\ sentinelRuns' = sentinelRuns + 1
    /\ inFlight' = [s \in Services |-> inFlight[s] + 1]
    /\ UNCHANGED <<now, escrowVars, payVars, pings, incidents>>

\* The fetch of a ping of service comes back and pingService runs to its end:
\* insertPing, updateLastChecked, handleIncidentDetection.
pingReturns(service, statusCode) ==
    /\ inFlight[service] > 0
    /\ inFlight' = [inFlight EXCEPT ![service] = @ - 1]
    /\ pings' = Append(pings, [service_id |-> service, status_code |-> statusCode,
                               is_up |-> isUpOf(statusCode)])
    /\ incidents' = handleIncidentDetection(incidents, service, isUpOf(statusCode))
    /\ UNCHANGED <<now, escrowVars, payVars, sentinelRuns>>

\* ------------------------------------------------------------ the system
Tick ==
    /\ now < MaxTime
    /\ now' = now + 1
    /\ UNCHANGED <<useOnChain, offVars, chainVars, payVars, sentinelVars>>

Init ==
    /\ useOnChain \in BOOLEAN
    /\ now = 0
    /\ escrows = <<>>
    /\ events = <<>>
    /\ vaultEscrows = [id \in VaultIds |-> ZeroEscrow]
    /\ nextEscrowId = 0
    /\ usdc = [h \in Holders |-> IF h \in Buyers THEN InitialBalance ELSE 0]
    /\ arbiter = "arb"
    /\ feeRecipient = "fee"
    /\ feeBps = FEE_BPS
    /\ totalVolumeUsdc = 0
    /\ totalFeesCollected = 0
    /\ NoRequests
    /\ NoPings

Next ==
    \/ Tick
    \/ \E b \in Buyers, s \in Sellers, a \in Amounts, d \in DeadlineChoices :
          createEscrow(b, s, a, d)
    \/ \E id \in EscrowIds : fundEscrow(id, "0xdeposit")
    \/ \E id \in EscrowIds : deliverEscrow(id, "proof")
    \/ \E id \in EscrowIds : acceptEscrow(id)
    \/ \E id \in EscrowIds, c \in Disputers : disputeEscrow(id, c, "not as described")
    \/ \E id \in EscrowIds, w \in Winners : resolveDispute(id, "ruling", w)
    \/ processExpiredEscrows
    \/ \E b \in Buyers, s \in VaultSellers, a \in VaultAmounts,
           d \in 0..MaxDeadline, w \in WindowChoices :
          vaultCreateEscrow(b, s, a, d, w)
    \/ \E c \in Callers, id \in VaultIds, h \in {Null, "proof"} : markDelivered(c, id, h)
    \/ \E c \in Callers, id \in VaultIds : acceptDelivery(c, id)
    \/ \E c \in Callers, id \in VaultIds, r \in {"", "not as described"} :
          openDispute(c, id, r)
    \/ \E c \in Callers, id \in VaultIds, bw \in BOOLEAN : vaultResolveDispute(c, id, bw)
    \/ \E c \in Callers, id \in VaultIds : reclaimExpired(c, id)
    \/ \E c \in Callers, id \in VaultIds : claimByTimeout(c, id)

Spec == Init /\ [][Next]_vars

\* ------------------------------------- the sweeper on a store that can fail
\* A ledger of SweepRows escrows of alice and bob that were created and funded, and
\* perhaps delivered, at some time up to now: the rows the sweeper's queries look at.
\* A row still funded was funded at time 0 with any deadline; a delivered row was
\* delivered at any time up to now and has the farthest deadline.
SweepRow(status, deadlineAt, updatedAt) ==
    [buyer_address |-> "alice", seller_address |-> "bob", amount_usdc |-> 100,
     service_description |-> "a service", acceptance_criteria |-> Null,
     deadline |-> toISOString(deadlineAt), status |-> status, deposit_tx |-> "0xdeposit",
     dispute_reason |-> Null, resolution |-> Null, updated_at |-> datetime(updatedAt)]

SweepHistory(status) ==
    <<[event_type |-> "created", actor |-> "alice"],
      [event_type |-> "funded", actor |-> "alice"]>>
    \o (IF status = "delivered" THEN <<[event_type |-> "delivered", actor |-> "bob"]>>
        ELSE <<>>)

SweepInit ==
    /\ useOnChain = FALSE
    /\ now \in 0..MaxTime
    /\ \E status \in [1..SweepRows -> {"funded", "delivered"}],
          deadlineAt \in [1..SweepRows -> 1..MaxDeadline],
          updatedAt \in [1..SweepRows -> 0..MaxTime] :
          /\ \A i \in 1..SweepRows :
                /\ updatedAt[i] <= now
                /\ status[i] = "funded" => updatedAt[i] = 0
                /\ status[i] = "delivered" => deadlineAt[i] = MaxDeadline
          /\ escrows = [i \in 1..SweepRows |->
                           SweepRow(status[i], deadlineAt[i], updatedAt[i])]
          /\ events = [i \in 1..SweepRows |-> SweepHistory(status[i])]
    /\ vaultEscrows = [id \in VaultIds |-> ZeroEscrow]
    /\ nextEscrowId = 0
    /\ usdc = [h \in Holders |-> IF h \in Buyers THEN InitialBalance ELSE 0]
    /\ arbiter = "arb"
    /\ feeRecipient = "fee"
    /\ feeBps = FEE_BPS
    /\ totalVolumeUsdc = 0
    /\ totalFeesCollected = 0
    /\ NoRequests
    /\ NoPings

\* index.js escrowJob: one run of the sweeper, the store failing on the ids in failing;
\* the job catches the Error and logs it.
escrowJob(failing) ==
    /\ Apply(processExpiredEscrowsRun(Store, failing))

SweepNext ==
    \/ Tick
    \/ \E failing \in SUBSET (1..SweepRows) : escrowJob(failing)

SweepSpec == SweepInit /\ [][SweepNext]_vars

\* The cron job fires every five minutes as the clock advances, and the failures of the
\* store are transient: a run on which the store does not fail always comes.
SweepLiveSpec == SweepSpec /\ WF_vars(Tick) /\ WF_vars(escrowJob({}))

\* ------------------------------------------- onchain.js: reading the contract
\* part_002 enum Status: the contract's statuses in the order of their uint8 values.
Status == <<"Active", "Delivered", "Completed", "Disputed", "Refunded", "Resolved">>

\* The uint8 the ABI carries for a status.
StatusValue(status) == CHOOSE v \in 0..(Len(Status) - 1) : Status[v + 1] = status

STATUS_MAP == <<"Active", "Delivered", "Completed", "Disputed", "Refunded", "Resolved">>

\* What the reader answers for escrow escrowId of the contract. STATUS_MAP[result.status]
\* || "Unknown": a JavaScript array is indexed from 0.
getEscrowOnChain(escrowId) ==
    LET result == vaultEscrows[escrowId]
        code == StatusValue(result.status)
    IN [id |-> escrowId, buyer |-> result.buyer, seller |-> result.seller,
        amount_usdc |-> result.amount, fee_usdc |-> result.fee,
        deadline |-> toISOString(result.deadline),
        delivered_at |-> IF result.deliveredAt > 0 THEN toISOString(result.deliveredAt)
                         ELSE Null,
        acceptance_window_seconds |-> result.acceptanceWindow,
        status |-> IF code + 1 \in DOMAIN STATUS_MAP THEN STATUS_MAP[code + 1]
                   ELSE "Unknown",
        dispute_reason |-> result.disputeReason]

\* ------------------------------------ onchain.js: descriptors of transactions
\* A piece of a descriptor is a word, written as it stands, or a number in digits.
Word(w) == [word |-> w]
Digits(n) == [digits |-> n]

\* BigInt(Math.round(parseFloat(amountUsdc) * 1e6)): USDC has six decimals.
UsdcUnit == 1000000
SecondsPerHour == 3600

\* buildCreateEscrowTx: the approve step is the template text
\* `approve(${getContract()}, amount)`, whose last word is the word amount and a note;
\* the create step carries the arguments of createEscrow.
buildCreateEscrowTx(seller, amountUsdc, serviceDescription, deadlineHours, acceptanceWindowHours) ==
    LET amountRaw == amountUsdc * UsdcUnit
        serviceHash == <<"keccak256", serviceDescription>>
        deadlineSeconds == deadlineHours * SecondsPerHour
        acceptanceWindow ==
            (IF acceptanceWindowHours = 0 THEN 24 ELSE acceptanceWindowHours)
                * SecondsPerHour
    IN [step_1_approve |->
            [to |-> "usdc",
             data |-> <<Word("approve"), Word(Vault), Word("amount")>>,
             note |-> "Approve amount + fee (1%)."],
        step_2_create |->
            [to |-> Vault,
             function |-> "createEscrow",
             args |-> [seller |-> seller,
                       amount |-> Digits(amountRaw),
                       serviceHash |-> serviceHash,
                       deadlineSeconds |-> Digits(deadlineSeconds),
                       acceptanceWindowSeconds |-> Digits(acceptanceWindow)]]]

\* ------------------------------------------ the payment middleware on its own
\* Requests arrive in any order and the awaits of different requests interleave.
PayInit == Init /\ ~useOnChain

PayNext ==
    \/ \E r \in RequestIds, route \in Routes, headers \in Headers :
          receive(r, route, headers)
    \/ \E r \in RequestIds, reply \in VerifyReplies : verifyReturns(r, reply)
    \/ \E r \in RequestIds, reply \in SettleReplies : settleReturns(r, reply)

PaySpec == PayInit /\ [][PayNext]_vars

\* ------------------------------------------- ClawVault: deployment and admin
\* The fees, arbiters and fee recipients a deployer or an arbiter may ask for.
FeeChoices == {0, FEE_BPS, MAX_FEE, MAX_FEE + 1}
ArbiterChoices == {"arb", "mallory", AddressZero}
RecipientChoices == {"fee", "arb", AddressZero}

\* require(_newFeeBps <= MAX_FEE, "Too high"); the constructor's "Fee too high".
feeAllowed_any(_newFeeBps) == TRUE

feeAllowed(_newFeeBps) == _newFeeBps <= MAX_FEE

\* constructor(_usdc, _arbiter, _feeRecipient, _feeBps): a deployment that did not
\* revert, with no escrow yet; the deployer names the arbiter and the fee recipient and
\* asks for any fee the constructor lets through.
AdminInit ==
    /\ useOnChain = TRUE
    /\ now = 0
    /\ escrows = <<>>
    /\ events = <<>>
    /\ vaultEscrows = [id \in VaultIds |-> ZeroEscrow]
    /\ nextEscrowId = 0
    /\ usdc = [h \in Holders |-> IF h \in Buyers THEN InitialBalance ELSE 0]
    /\ arbiter = "arb"
    /\ feeRecipient = "fee"
    /\ feeBps \in {f \in FeeChoices : feeAllowed(f)}
    /\ totalVolumeUsdc = 0
    /\ totalFeesCollected = 0
    /\ NoRequests
    /\ NoPings

\* function updateArbiter(address _newArbiter) external onlyArbiter
updateArbiter(sender, _newArbiter) ==
    /\ arbiter' = IF onlyArbiter(sender) /\ _newArbiter # AddressZero THEN _newArbiter
                  ELSE arbiter
    /\ UNCHANGED <<useOnChain, now, offVars, vaultEscrows, nextEscrowId, usdc,
                   feeRecipient, feeBps, totalVolumeUsdc, totalFeesCollected, payVars, sentinelVars>>

\* function updateFee(uint256 _newFeeBps) external onlyArbiter
updateFee(sender, _newFeeBps) ==
    /\ feeBps' = IF onlyArbiter(sender) /\ feeAllowed(_newFeeBps) THEN _newFeeBps
                 ELSE feeBps
    /\ UNCHANGED <<useOnChain, now, offVars, vaultEscrows, nextEscrowId, usdc,
                   arbiter, feeRecipient, totalVolumeUsdc, totalFeesCollected, payVars, sentinelVars>>

\* function updateFeeRecipient(address _newRecipient) external onlyArbiter
updateFeeRecipient(sender, _newRecipient) ==
    /\ feeRecipient' = IF onlyArbiter(sender) /\ _newRecipient # AddressZero
                       THEN _newRecipient
                       ELSE feeRecipient
    /\ UNCHANGED <<useOnChain, now, offVars, vaultEscrows, nextEscrowId, usdc,
                   arbiter, feeBps, totalVolumeUsdc, totalFeesCollected, payVars, sentinelVars>>

\* The admin functions, with escrows being created, delivered and accepted meanwhile.
AdminNext ==
    \/ \E c \in Callers, a \in ArbiterChoices : updateArbiter(c, a)
    \/ \E c \in Callers, f \in FeeChoices : updateFee(c, f)
    \/ \E c \in Callers, r \in RecipientChoices : updateFeeRecipient(c, r)
    \/ \E b \in Buyers, s \in Sellers, a \in Amounts, d \in DeadlineChoices :
          vaultCreateEscrow(b, s, a, d, MIN_ACCEPTANCE_WINDOW)
    \/ \E c \in Callers, id \in VaultIds : markDelivered(c, id, "proof")
    \/ \E c \in Callers, id \in VaultIds : acceptDelivery(c, id)

AdminSpec == AdminInit /\ [][AdminNext]_vars

\* ------------------------------------------------------ the sentinel on its own
\* The cron job fires every minute whether or not the pings of the run before have come
\* back, and the pings in flight come back in any order as time passes.
SentinelInit == Init /\ ~useOnChain

SentinelNext ==
    \/ Tick
    \/ pingAllServices
    \/ \E s \in Services, code \in StatusCodes : pingReturns(s, code)

SentinelSpec == SentinelInit /\ [][SentinelNext]_vars

\* ================================================================ claims
\* The error taxonomy of the lifecycle, by the messages the code gives.
InvalidState ==
    {"Cannot fund", "Cannot deliver", "Cannot accept", "Cannot dispute", "Cannot resolve",
     "Not active", "Not delivered", "Not disputed"}
DeadlineExceeded == {"Deadline passed"}
DeadlineNotReached == {"Deadline not passed"}
WindowNotExpired == {"Acceptance window not expired"}

LedgerIds == 1..Len(escrows)
CreatedVaultIds == {id \in VaultIds : id < nextEscrowId}

\* The edges of the state machine; the contract's Active is the ledger's funded.
LedgerEdges ==
    {<<"created", "funded">>, <<"funded", "delivered">>, <<"delivered", "completed">>,
     <<"delivered", "disputed">>, <<"disputed", "resolved">>,
     <<"created", "refunded">>, <<"funded", "refunded">>}
VaultEdges ==
    {<<"Active", "Delivered">>, <<"Delivered", "Completed">>, <<"Delivered", "Disputed">>,
     <<"Disputed", "Resolved">>, <<"Active", "Refunded">>}

HasEvent(id, eventType) ==
    \E i \in 1..Len(events[id]) : events[id][i].event_type = eventType

\* C1: every status change of every escrow, in the ledger and in the contract, follows
\* an edge of the state machine: created->funded, funded->delivered,
\* delivered->completed, delivered->disputed, disputed->resolved,
\* created/funded->refunded.
C1_StatusChangesFollowEdges ==
    [][ /\ \A id \in LedgerIds :
              escrows'[id].status # escrows[id].status
                  => <<escrows[id].status, escrows'[id].status>> \in LedgerEdges
        /\ \A id \in VaultIds :
              vaultEscrows'[id].status # vaultEscrows[id].status
                  => <<vaultEscrows[id].status, vaultEscrows'[id].status>> \in VaultEdges
      ]_vars

\* The requests that race in C2, and the handler each one runs.
RaceRequests ==
    {[op |-> "accept", by |-> "none"]} \cup {[op |-> "dispute", by |-> d] : d \in Disputers}

Handle(st, id, r) ==
    IF r.op = "accept" THEN acceptEscrowCall(st, id)
    ELSE disputeEscrowCall(st, id, r.by, "not as described")

\* C2: of any two accept/dispute requests handled one after the other on the same
\* delivered escrow (in either order, two accepts included), the first succeeds and
\* moves the escrow out of delivered, the second fails with InvalidState and writes
\* nothing: the escrow gets one transition out of delivered, never two.
C2_RaceOnDelivered ==
    \A id \in LedgerIds :
        escrows[id].status = "delivered" =>
            \A r1 \in RaceRequests, r2 \in RaceRequests :
                LET o1 == Handle(Store, id, r1)
                    o2 == Handle(o1, id, r2)
                IN /\ o1.res = "ok"
                   /\ o1.escrows[id].status \in {"completed", "disputed"}
                   /\ o2.res \in InvalidState
                   /\ o2.escrows = o1.escrows
                   /\ o2.events = o1.events
                   /\ o2.pay = "none"

C2_Witness ==
    \E id \in LedgerIds :
        /\ escrows[id].status = "disputed"
        /\ HasEvent(id, "delivered")
        /\ acceptEscrowCall(Store, id).res \in InvalidState

\* C3: a disputed escrow leaves that status only by a resolve step; accept, the
\* sweeper's automatic release and refund, and the contract's claimByTimeout never
\* succeed on it.
C3_OnlyResolveLeavesDisputed ==
    [][ /\ \A id \in LedgerIds :
              escrows[id].status = "disputed" /\ escrows'[id].status # "disputed"
                  => \E w \in Winners : resolveDispute(id, "ruling", w)
        /\ \A id \in VaultIds :
              vaultEscrows[id].status = "Disputed" /\ vaultEscrows'[id].status # "Disputed"
                  => \E c \in Callers, bw \in BOOLEAN : vaultResolveDispute(c, id, bw)
      ]_vars

C3_Witness ==
    \E id \in LedgerIds :
        /\ HasEvent(id, "disputed")
        /\ HasEvent(id, "resolved")
        /\ escrows[id].status # "disputed"

\* C4: completed, refunded and resolved are terminal: no step changes the status of
\* an escrow that is in one of them.
C4_TerminalStatusesStay ==
    [][ /\ \A id \in LedgerIds :
              escrows[id].status \in {"completed", "refunded", "resolved"}
                  => escrows'[id].status = escrows[id].status
        /\ \A id \in VaultIds :
              vaultEscrows[id].status \in {"Completed", "Refunded", "Resolved"}
                  => vaultEscrows'[id].status = vaultEscrows[id].status
      ]_vars

C4_Witness ==
    \/ \E id \in LedgerIds : escrows[id].status = "refunded" /\ now > ParseTime(escrows[id].updated_at)
    \/ \E id \in CreatedVaultIds :
          vaultEscrows[id].status = "Resolved" /\ now > vaultEscrows[id].deliveredAt

\* C5: accept replayed on a completed escrow fails with InvalidState, leaves the
\* status completed, and produces no payout directive, no transfer and no event.
C5_AcceptReplayIsRejected ==
    /\ \A id \in LedgerIds :
          escrows[id].status = "completed" =>
              LET out == acceptEscrowCall(Store, id)
              IN /\ out.res \in InvalidState
                 /\ out.pay = "none"
                 /\ out.escrows = escrows
                 /\ out.events = events
    /\ \A id \in CreatedVaultIds :
          vaultEscrows[id].status = "Completed" =>
              LET out == acceptDeliveryCall(vaultEscrows[id].buyer, id)
              IN /\ out.res \in InvalidState
                 /\ out.pay = "none"
                 /\ out.vaultEscrows = vaultEscrows
                 /\ out.usdc = usdc

C5_Witness ==
    \E id \in LedgerIds :
        /\ escrows[id].status = "completed"
        /\ HasEvent(id, "completed")
        /\ ~HasEvent(id, "auto_completed")
        /\ ~HasEvent(id, "resolved")

\* A winner value that names a party of the escrow: by role or by address.
IsParty(esc, winner) ==
    winner \in {"buyer", "seller", esc.buyer_address, esc.seller_address}

\* C6: resolve rejects every winner that is neither the escrow's buyer nor its
\* seller: the call fails, the escrow stays disputed, nobody is paid.
C6_ResolveRejectsOtherWinners ==
    \A id \in LedgerIds, w \in Winners :
        escrows[id].status = "disputed" /\ ~IsParty(escrows[id], w) =>
            LET out == resolveDisputeCall(Store, id, "ruling", w)
            IN /\ out.res # "ok"
               /\ out.escrows[id].status = "disputed"
               /\ out.pay = "none"

\* C7: the deadline timeout refunds an escrow only at a time strictly after its
\* deadline: reclaimExpired at or before the deadline fails with DeadlineNotReached
\* and changes nothing, and a sweeper run at or before the deadline refunds nothing.
C7_RefundOnlyAfterDeadline ==
    /\ \A id \in CreatedVaultIds, c \in Callers :
          LET e == vaultEscrows[id]
              out == reclaimExpiredCall(c, id)
          IN /\ out.res = "ok" => now > e.deadline /\ out.vaultEscrows[id].status = "Refunded"
             /\ (e.status = "Active" /\ c = e.buyer /\ now <= e.deadline) =>
                    /\ out.res \in DeadlineNotReached
                    /\ out.vaultEscrows = vaultEscrows
                    /\ out.usdc = usdc
    /\ \A id \in LedgerIds :
          LET out == processExpiredEscrowsCall(Store)
          IN (escrows[id].status # "refunded" /\ out.escrows[id].status = "refunded")
                 => now > ParseTime(escrows[id].deadline)

C7_Witness ==
    \/ \E id \in CreatedVaultIds : vaultEscrows[id].status = "Refunded"
    \/ \E id \in LedgerIds : HasEvent(id, "auto_refunded")

\* The ledger keeps no acceptance window per escrow: the sweeper's '-1 day' is the
\* window of every escrow, counted from the update that marked the delivery.
ledgerDeliveredAt(esc) == ParseTime(esc.updated_at)
ledgerAcceptanceWindow == TicksPerDay

C9_DeliverOnlyBeforeDeadline ==
    /\ \A id \in LedgerIds :
          LET esc == escrows[id]
              out == deliverEscrowCall(Store, id, "proof")
          IN /\ out.res = "ok" => esc.status = "funded" /\ now <= ParseTime(esc.deadline)
             /\ (esc.status = "funded" /\ now > ParseTime(esc.deadline)) =>
                    out.res \in DeadlineExceeded /\ out.escrows[id].status # "delivered"
    /\ \A id \in CreatedVaultIds :
          LET e == vaultEscrows[id]
              out == markDeliveredCall(e.seller, id, "proof")
          IN /\ out.res = "ok" => e.status = "Active" /\ now <= e.deadline
             /\ (e.status = "Active" /\ now > e.deadline) =>
                    out.res \in DeadlineExceeded /\ out.vaultEscrows[id].status # "Delivered"

\* C10: dispute succeeds only on a delivered escrow; from every other status, funded
\* included, it fails with InvalidState and the status is unchanged.
C10_DisputeOnlyFromDelivered ==
    /\ \A id \in LedgerIds, d \in Disputers :
          LET out == disputeEscrowCall(Store, id, d, "not as described")
          IN IF escrows[id].status = "delivered" THEN TRUE
             ELSE out.res \in InvalidState /\ out.escrows[id].status = escrows[id].status
    /\ \A id \in CreatedVaultIds :
          LET e == vaultEscrows[id]
              out == openDisputeCall(e.buyer, id, "not as described")
          IN IF e.status = "Delivered" THEN TRUE
             ELSE out.res \in InvalidState /\ out.vaultEscrows[id].status = e.status

WindowExpired == {"Acceptance window expired"}
Unauthorized == {"Not buyer", "Not seller", "Not arbiter"}

\* C11: dispute on a delivered escrow succeeds only while
\* now <= deliveredAt + acceptanceWindow; after the window it fails with WindowExpired
\* and the escrow stays delivered.
C11_DisputeOnlyWithinWindow ==
    /\ \A id \in LedgerIds, d \in Disputers :
          LET esc == escrows[id]
              out == disputeEscrowCall(Store, id, d, "not as described")
              closes == ledgerDeliveredAt(esc) + ledgerAcceptanceWindow
          IN esc.status = "delivered" =>
                /\ out.res = "ok" => now <= closes
                /\ now > closes =>
                      out.res \in WindowExpired /\ out.escrows[id].status = "delivered"
    /\ \A id \in CreatedVaultIds :
          LET e == vaultEscrows[id]
              out == openDisputeCall(e.buyer, id, "not as described")
              closes == e.deliveredAt + e.acceptanceWindow
          IN e.status = "Delivered" =>
                /\ out.res = "ok" => now <= closes
                /\ now > closes =>
                      out.res \in WindowExpired /\ out.vaultEscrows[id].status = "Delivered"

\* C12: accept and dispute succeed only when the caller is the buyer of the escrow; a
\* call by the seller or by a third party never changes the escrow's status.
C12_OnlyBuyerAcceptsOrDisputes ==
    /\ \A id \in LedgerIds, c \in Callers :
          c # escrows[id].buyer_address =>
              LET out == disputeEscrowCall(Store, id, c, "not as described")
              IN out.res # "ok" /\ out.escrows[id].status = escrows[id].status
    /\ \A id \in CreatedVaultIds, c \in Callers :
          c # vaultEscrows[id].buyer =>
              /\ acceptDeliveryCall(c, id).res \in Unauthorized
              /\ acceptDeliveryCall(c, id).vaultEscrows = vaultEscrows
              /\ openDisputeCall(c, id, "not as described").res \in Unauthorized
              /\ openDisputeCall(c, id, "not as described").vaultEscrows = vaultEscrows

\* C13: each timeout of the contract is claimable only by the party it protects:
\* reclaimExpired succeeds only for the escrow's buyer and claimByTimeout only for its
\* seller; for every other caller the call reverts as Unauthorized and storage and
\* balances are unchanged.
C13_TimeoutsOnlyForProtectedParty ==
    \A id \in CreatedVaultIds, c \in Callers :
        LET e == vaultEscrows[id]
            reclaim == reclaimExpiredCall(c, id)
            claim == claimByTimeoutCall(c, id)
        IN /\ reclaim.res = "ok" => c = e.buyer
           /\ claim.res = "ok" => c = e.seller
           /\ c # e.buyer =>
                 /\ reclaim.res \in Unauthorized
                 /\ reclaim.vaultEscrows = vaultEscrows
                 /\ reclaim.usdc = usdc
           /\ c # e.seller =>
                 /\ claim.res \in Unauthorized
                 /\ claim.vaultEscrows = vaultEscrows
                 /\ claim.usdc = usdc

\* A delivered escrow past its window and an active one past its deadline, each open
\* to its timeout: the protected party's call succeeds, everybody else's does not.
C13_Witness ==
    \E id \in CreatedVaultIds :
        LET e == vaultEscrows[id]
        IN \/ /\ e.status = "Delivered"
              /\ claimByTimeoutCall(e.seller, id).res = "ok"
              /\ claimByTimeoutCall(e.buyer, id).res = "Not seller"
           \/ /\ e.status = "Active"
              /\ reclaimExpiredCall(e.buyer, id).res = "ok"
              /\ reclaimExpiredCall(e.seller, id).res = "Not buyer"

\* C14: resolve succeeds only on a disputed escrow and only for the arbiter, and after a
\* successful resolve the escrow's status is resolved whichever party wins.
C14_ResolveEndsResolved ==
    /\ \A id \in LedgerIds, w \in {"buyer", "seller"} :
          LET out == resolveDisputeCall(Store, id, "ruling", w)
          IN out.res = "ok" =>
                /\ escrows[id].status = "disputed"
                /\ out.escrows[id].status = "resolved"
    /\ \A id \in CreatedVaultIds, c \in Callers, bw \in BOOLEAN :
          LET out == vaultResolveDisputeCall(c, id, bw)
          IN out.res = "ok" =>
                /\ vaultEscrows[id].status = "Disputed"
                /\ c = arbiter
                /\ out.vaultEscrows[id].status = "Resolved"

\* C15: fund succeeds only on an escrow whose status is created and moves it to funded,
\* recording the deposit proof; from every other status it fails with InvalidState and
\* the status, the deposit proof and the events are unchanged.
C15_FundOnlyFromCreated ==
    \A id \in LedgerIds :
        LET out == fundEscrowCall(Store, id, "0xreplayed")
        IN IF escrows[id].status = "created"
           THEN /\ out.res = "ok"
                /\ out.escrows[id].status = "funded"
                /\ out.escrows[id].deposit_tx = "0xreplayed"
           ELSE /\ out.res \in InvalidState
                /\ out.escrows = escrows
                /\ out.events = events

C15_Witness ==
    \E id \in LedgerIds :
        /\ escrows[id].status \in {"funded", "delivered"}
        /\ escrows[id].deposit_tx = "0xdeposit"
        /\ fundEscrowCall(Store, id, "0xreplayed").res = "Cannot fund"

\* POST /api/v1/escrow/create in off-chain mode: the required-field checks of the route
\* (a missing field or a falsy amount_usdc answers 400), then createEscrow with
\* deadline_hours || 24. An absent address is "", an absent or zero number 0.
postEscrowCreate(st, buyer_address, seller_address, amount_usdc, deadline_hours) ==
    IF seller_address = "" \/ amount_usdc = 0
    THEN Throw(st, "Required: seller_address, amount_usdc, service_description")
    ELSE IF buyer_address = "" THEN Throw(st, "Off-chain mode requires buyer_address")
    ELSE createEscrowCall(st, buyer_address, seller_address, amount_usdc,
                          IF deadline_hours = 0 THEN TicksPerDay ELSE deadline_hours)

InvalidArgument ==
    {"Required: seller_address, amount_usdc, service_description",
     "Off-chain mode requires buyer_address",
     "Invalid seller", "Amount must be > 0", "Deadline too short", "Deadline too long",
     "Invalid acceptance window"}

\* C16: create succeeds only when amount > 0 and the seller differs from the buyer;
\* otherwise it fails with InvalidArgument and creates no escrow record and no event.
C16_CreateValidatesArguments ==
    /\ \A b \in Buyers, s \in Buyers \cup Sellers, a \in Amounts \cup {0, -1},
          d \in DeadlineChoices :
          LET out == postEscrowCreate(Store, b, s, a, d)
          IN ~(a > 0 /\ s # b) =>
                /\ out.res \in InvalidArgument
                /\ out.escrows = escrows
                /\ out.events = events
    /\ \A b \in Buyers, s \in VaultSellers, a \in VaultAmounts \cup {-1},
          d \in DeadlineChoices, w \in WindowChoices :
          LET out == vaultCreateEscrowCall(b, s, a, d, w)
          IN ~(a > 0 /\ s # b) =>
                /\ out.res \in InvalidArgument
                /\ out.vaultEscrows = vaultEscrows
                /\ out.nextEscrowId = nextEscrowId
                /\ out.usdc = usdc

\* The sum of f over the set S.
RECURSIVE Sum(_, _)
Sum(f, S) ==
    IF S = {} THEN 0
    ELSE LET x == CHOOSE y \in S : TRUE IN f[x] + Sum(f, S \ {x})

\* What the buyer of escrow id paid into the contract: the amount and the fee on top.
Funded == [id \in VaultIds |-> vaultEscrows[id].amount + vaultEscrows[id].fee]
OpenVaultIds ==
    {id \in CreatedVaultIds : vaultEscrows[id].status \in {"Active", "Delivered", "Disputed"}}
TerminalVaultIds == CreatedVaultIds \ OpenVaultIds
Parties == Buyers \cup Sellers

\* What buyers and sellers have been paid out of the contract so far.
Payouts ==
    Sum(usdc, Parties) - (Cardinality(Buyers) * InitialBalance - Sum(Funded, CreatedVaultIds))

\* One call of the contract that may pay escrow id out, with its outcome out: if it
\* succeeds the escrow was open and is now terminal and exactly one of buyer and seller
\* was paid, at least the amount; on a terminal escrow it reverts and moves nothing.
PaysOneParty(id, out) ==
    LET e == vaultEscrows[id]
        paid == {h \in {e.buyer, e.seller} : out.usdc[h] # usdc[h]}
    IN /\ out.res = "ok" =>
             /\ id \in OpenVaultIds
             /\ out.vaultEscrows[id].status \in {"Completed", "Refunded", "Resolved"}
             /\ Cardinality(paid) = 1
             /\ \A h \in paid : out.usdc[h] >= usdc[h] + e.amount
       /\ id \in TerminalVaultIds => out.res # "ok" /\ out.usdc = usdc

\* The events of the ledger that stand for a payout: to the seller on completed, to the
\* winner on resolved, to the buyer on auto_refunded.
PayingEvents(id) ==
    {i \in 1..Len(events[id]) :
        events[id][i].event_type \in {"completed", "resolved", "auto_refunded"}}

ReleasesAmount(id, out) ==
    LET e == vaultEscrows[id]
    IN out.res = "ok" =>
          /\ out.pay = e.seller
          /\ out.usdc[e.seller] = usdc[e.seller] + e.amount
          /\ out.usdc[feeRecipient] = usdc[feeRecipient] + e.fee
          /\ out.usdc[Vault] = usdc[Vault] - (e.amount + e.fee)
          /\ out.usdc[e.buyer] = usdc[e.buyer]

\* C18: on every transition of the contract that releases funds to the seller (accept,
\* claimByTimeout, resolve with the seller winning) the seller receives exactly the
\* escrow's amount and the fee recipient the fee, both out of the amount + fee that the
\* creation reserved in the contract: the fee is never taken from the amount.
C18_SellerReceivesFullAmount ==
    /\ \A id \in CreatedVaultIds, c \in Callers :
          /\ ReleasesAmount(id, acceptDeliveryCall(c, id))
          /\ ReleasesAmount(id, claimByTimeoutCall(c, id))
          /\ ReleasesAmount(id, vaultResolveDisputeCall(c, id, FALSE))
    /\ \A b \in Buyers, s \in Sellers, a \in Amounts,
          d \in DeadlineChoices, w \in WindowChoices :
          LET out == vaultCreateEscrowCall(b, s, a, d, w)
              e == out.vaultEscrows[nextEscrowId]
          IN (useOnChain /\ nextEscrowId \in VaultIds /\ out.res = "ok") =>
                /\ e.amount = a
                /\ e.fee = (a * feeBps) \div 10000
                /\ out.usdc[Vault] = usdc[Vault] + a + e.fee
                /\ out.usdc[b] = usdc[b] - (a + e.fee)

C18_Witness ==
    \E id \in CreatedVaultIds :
        LET e == vaultEscrows[id]
        IN /\ e.status = "Completed"
           /\ e.fee > 0
           /\ usdc[e.seller] >= e.amount
           /\ usdc[feeRecipient] >= e.fee
           /\ usdc[Vault] = Sum(Funded, OpenVaultIds)

\* The last step of the happy path on the contract: the buyer accepts a delivered
\* escrow of amount 100 created at a fee of 1% (100 bps). The seller's and the fee
\* recipient's gains are the parameters.
HappyPathPays(toSeller, toFeeRecipient) ==
    \A id \in CreatedVaultIds :
        LET e == vaultEscrows[id]
            out == acceptDeliveryCall(e.buyer, id)
        IN (e.status = "Delivered" /\ e.amount = 100 /\ feeBps = 100) =>
              /\ out.res = "ok"
              /\ out.vaultEscrows[id].status = "Completed"
              /\ out.usdc[e.seller] = usdc[e.seller] + toSeller
              /\ out.usdc[feeRecipient] = usdc[feeRecipient] + toFeeRecipient

RefundsInFull(id, out) ==
    LET e == vaultEscrows[id]
    IN out.res = "ok" =>
          /\ out.pay = e.buyer
          /\ out.usdc[e.buyer] = usdc[e.buyer] + e.amount + e.fee
          /\ out.usdc[Vault] = usdc[Vault] - (e.amount + e.fee)
          /\ out.usdc[e.seller] = usdc[e.seller]
          /\ out.usdc[feeRecipient] = usdc[feeRecipient]
          /\ out.totalFeesCollected = totalFeesCollected

\* C20: on every refund of the contract to the buyer (reclaimExpired, or resolve with
\* the buyer winning) the buyer receives the full funded sum, the amount plus the
\* reserved fee, and neither the seller nor the fee recipient receives anything: no fee
\* is collected for that escrow.
C20_BuyerRefundedInFull ==
    \A id \in CreatedVaultIds, c \in Callers :
        /\ RefundsInFull(id, reclaimExpiredCall(c, id))
        /\ RefundsInFull(id, vaultResolveDisputeCall(c, id, TRUE))

C20_Witness ==
    \E id \in CreatedVaultIds :
        LET e == vaultEscrows[id]
        IN /\ e.status \in {"Refunded", "Resolved"}
           /\ e.fee > 0
           /\ usdc[e.buyer] = InitialBalance
           /\ usdc[e.seller] = 0
           /\ usdc[feeRecipient] = 0

\* C21: within one sweeper run a failure on one eligible escrow does not abort the
\* batch: every other eligible escrow of the run is still processed (released or
\* refunded), and the failed escrow is left as it was, eligible for a later run.
C21_SweepFailureDoesNotAbortBatch ==
    \A failing \in SUBSET LedgerIds :
        LET out == processExpiredEscrowsRun(Store, failing)
        IN /\ \A id \in LedgerIds \ failing :
                 /\ autoReleaseDue(escrows[id]) => out.escrows[id].status = "completed"
                 /\ autoRefundDue(escrows[id]) => out.escrows[id].status = "refunded"
           /\ \A id \in failing :
                 /\ out.escrows[id] = escrows[id]
                 /\ out.events[id] = events[id]

\* C22: a funded escrow that is not delivered is refunded by the first sweeper run that
\* executes at any time strictly after its deadline.
C22_SweepRefundsRightAfterDeadline ==
    \A id \in LedgerIds :
        (escrows[id].status = "funded" /\ now > ParseTime(escrows[id].deadline)) =>
            processExpiredEscrowsCall(Store).escrows[id].status = "refunded"

\* C23: a sweeper run applies the deadline refund to every escrow whose deadline has
\* elapsed, whether its status is created or funded: an escrow that was never funded
\* does not stay created once a day has turned since its deadline.
C23_SweepRefundsCreatedToo ==
    \A id \in LedgerIds :
        (/\ escrows[id].status \in {"created", "funded"}
         /\ TextLess(escrows[id].deadline, datetime(now))) =>
            processExpiredEscrowsCall(Store).escrows[id].status = "refunded"

\* C24: a delivered escrow on which the buyer neither accepts nor disputes does not
\* stay delivered forever: with the clock advancing and the sweeper running again and
\* again, an escrow delivered early enough for its window to elapse before the end of
\* time is eventually completed, after that window has elapsed.
C24_DeliveredIsEventuallyReleased ==
    \A id \in 1..SweepRows :
        (/\ escrows[id].status = "delivered"
         /\ ledgerDeliveredAt(escrows[id]) + ledgerAcceptanceWindow < MaxTime)
        ~> (/\ escrows[id].status = "completed"
            /\ HasEvent(id, "auto_completed")
            /\ now > ledgerAcceptanceWindow)

C24_Witness ==
    \E id \in LedgerIds :
        /\ escrows[id].status = "completed"
        /\ HasEvent(id, "auto_completed")
        /\ ~HasEvent(id, "disputed")
        /\ now = ledgerDeliveredAt(escrows[id])
        /\ \E other \in LedgerIds : escrows[other].status = "funded"

\* The user-triggered calls on escrow id all fail on the tables st and change nothing.
UserCallsFail(st, id) ==
    /\ fundEscrowCall(st, id, "0xdeposit").res \in InvalidState
    /\ deliverEscrowCall(st, id, "proof").res \in InvalidState
    /\ acceptEscrowCall(st, id).res \in InvalidState
    /\ \A d \in Disputers : disputeEscrowCall(st, id, d, "late").res \in InvalidState
    /\ \A w \in Winners : resolveDisputeCall(st, id, "ruling", w).res \in InvalidState

\* A run of the sweeper on the tables st leaves escrow id and its events as they are.
SweepLeaves(st, id) ==
    LET again == processExpiredEscrowsCall(st)
    IN /\ again.res = "ok"
       /\ again.escrows[id] = st.escrows[id]
       /\ again.events[id] = st.events[id]

\* A user-triggered call that ended escrow id is not followed by a transition of the
\* sweeper on it.
SweepLeavesAfter(out, id) ==
    (out.res = "ok" /\ out.escrows[id].status \in {"completed", "refunded"})
        => SweepLeaves(out, id)

\* C25: no transition is applied twice. Handlers and sweeper runs are serialized, so an
\* overlap is one run after another at the same instant: a second run of the sweeper
\* right after a first changes nothing; on an escrow the sweeper has ended every
\* user-triggered call fails with InvalidState; on an escrow a user-triggered call has
\* ended the sweeper does nothing; and an escrow's log never holds more than one event
\* of a terminal transition, which is the one payout or refund directive.
C25_NoTransitionAppliedTwice ==
    LET swept == processExpiredEscrowsCall(Store)
    IN \A id \in LedgerIds :
          /\ Cardinality(PayingEvents(id)) <= 1
          /\ SweepLeaves(swept, id)
          /\ swept.escrows[id].status \in {"completed", "refunded"}
                => UserCallsFail(swept, id)
          /\ SweepLeavesAfter(acceptEscrowCall(Store, id), id)
          /\ \A w \in Winners :
                SweepLeavesAfter(resolveDisputeCall(Store, id, "ruling", w), id)

C25_Witness ==
    \E id \in LedgerIds :
        /\ escrows[id].status = "funded"
        /\ processExpiredEscrowsCall(Store).escrows[id].status = "refunded"
        /\ fundEscrowCall(processExpiredEscrowsCall(Store), id, "0xdeposit").res
               = "Cannot fund"

\* The log evs continues the log old: what was appended to old is still there, unmodified.
Continues(evs, old) ==
    /\ Len(evs) >= Len(old)
    /\ SubSeq(evs, 1, Len(old)) = old

\* C26: a step that changes the status of an escrow of the ledger appends exactly one
\* event to its log, a step that creates one starts its log with one event, and no step
\* modifies or deletes an event that was appended.
C26_OneEventPerTransition ==
    [][ /\ Len(events') = Len(escrows')
        /\ \A id \in LedgerIds :
              /\ id \in 1..Len(events')
              /\ Continues(events'[id], events[id])
              /\ escrows'[id].status # escrows[id].status
                    => Len(events'[id]) = Len(events[id]) + 1
        /\ \A id \in 1..Len(events') : id \notin LedgerIds => Len(events'[id]) = 1
      ]_vars

\* The status an event leads to from a status of the state machine; "invalid" when the
\* machine has no such step. "none" is the status before creation.
EventStep(status, eventType) ==
    CASE status = "none" /\ eventType = "created" -> "created"
      [] status = "created" /\ eventType = "funded" -> "funded"
      [] status = "funded" /\ eventType = "delivered" -> "delivered"
      [] status = "delivered" /\ eventType \in {"completed", "auto_completed"} -> "completed"
      [] status = "delivered" /\ eventType = "disputed" -> "disputed"
      [] status = "disputed" /\ eventType = "resolved" -> "resolved"
      [] status \in {"created", "funded"} /\ eventType = "auto_refunded" -> "refunded"
      [] OTHER -> "invalid"

\* The status reached by replaying the events evs from status.
RECURSIVE Replay(_, _)
Replay(status, evs) ==
    IF evs = <<>> THEN status
    ELSE Replay(EventStep(status, Head(evs).event_type), Tail(evs))

\* C27: the events of every escrow of the ledger, in log order, are a walk of the state
\* machine that starts with creation, and replaying them gives the status of its record.
C27_EventsReplayToStatus ==
    \A id \in LedgerIds :
        /\ events[id] # <<>>
        /\ Head(events[id]).event_type = "created"
        /\ Replay("none", events[id]) = escrows[id].status

\* What creation fixes in a row of the ledger (its id is its place in the table) and
\* in an escrow of the contract (its id is its key in the mapping).
LedgerTerms(esc) ==
    <<esc.buyer_address, esc.seller_address, esc.amount_usdc, esc.service_description,
      esc.acceptance_criteria, esc.deadline>>

VaultTerms(e) == <<e.buyer, e.seller, e.amount, e.fee, e.deadline, e.acceptanceWindow>>

\* C28: no step changes the parties, the amount, the description, the criteria, the
\* deadline or the acceptance window of an escrow that exists, under its id, and no
\* step deletes an escrow: the ledger's table and the contract's mapping only grow.
C28_TermsAreImmutable ==
    [][ /\ Len(escrows') >= Len(escrows)
        /\ \A id \in LedgerIds : LedgerTerms(escrows'[id]) = LedgerTerms(escrows[id])
        /\ nextEscrowId' >= nextEscrowId
        /\ \A id \in CreatedVaultIds :
              /\ VaultTerms(vaultEscrows'[id]) = VaultTerms(vaultEscrows[id])
              /\ vaultEscrows'[id].buyer # AddressZero
      ]_vars

C28_Witness ==
    \/ \E id \in LedgerIds :
          /\ escrows[id].status = "refunded"
          /\ HasEvent(id, "auto_refunded")
          /\ ParseTime(escrows[id].deadline) < now
    \/ \E id \in CreatedVaultIds :
          /\ vaultEscrows[id].status = "Resolved"
          /\ vaultEscrows[id].deliveredAt > 0

\* C29: the delivery time is unset until delivery, set by it and kept afterwards, and
\* it is never after the deadline. In the contract an escrow never delivered has
\* deliveredAt 0 and no step changes the deliveredAt of a delivered one; in the ledger
\* and in the contract an escrow that is delivered was delivered by its deadline.
C29_DeliveredAtSetOnceByDeadline ==
    /\ \A id \in LedgerIds :
          escrows[id].status = "delivered"
              => ledgerDeliveredAt(escrows[id]) <= ParseTime(escrows[id].deadline)
    /\ \A id \in CreatedVaultIds :
          IF vaultEscrows[id].status \in {"Active", "Refunded"}
          THEN vaultEscrows[id].deliveredAt = 0
          ELSE vaultEscrows[id].deliveredAt <= vaultEscrows[id].deadline

\* C30: in on-chain mode the routes only hand out transactions for the contract: the
\* ledger's tables, empty when the service starts, stay as they were whatever requests
\* are made and whatever the contract does.
C30_OnChainModeLeavesLedgerAlone ==
    useOnChain => escrows = <<>> /\ events = <<>>

C30_Witness ==
    /\ useOnChain
    /\ escrows = <<>>
    /\ \E id \in CreatedVaultIds : vaultEscrows[id].status \in {"Completed", "Disputed"}

\* The state names of the internal mode: the statuses the ledger's edges go through.
InternalStatuses == {e[1] : e \in LedgerEdges} \cup {e[2] : e \in LedgerEdges}

\* C31: reading an escrow of the contract reports its status in a state name of the
\* internal mode, whatever the status of the escrow.
C31_ReaderSpeaksInternalVocabulary ==
    \A id \in CreatedVaultIds : getEscrowOnChain(id).status \in InternalStatuses

\* C32: the descriptor of a creation has an approve step and a create step, the create
\* step carries the amount in raw units, and the approve step carries the total the
\* contract pulls at creation: the amount plus the fee at the current feeBps.
C32_ApproveStepCarriesTotal ==
    \A s \in Sellers, a \in {1, 20}, d \in DeadlineChoices, w \in WindowChoices :
        LET tx == buildCreateEscrowTx(s, a, "a service", d, w)
            amountRaw == a * UsdcUnit
            total == amountRaw + protocolFee(amountRaw)
        IN /\ tx.step_2_create.args.amount = Digits(amountRaw)
           /\ \E i \in DOMAIN tx.step_1_approve.data :
                 tx.step_1_approve.data[i] = Digits(total)

\* The requests made to a paid route, without and with a payment header.
Unpaid(req) == req.pc # "none" /\ req.route \in PAID_ROUTES /\ Falsy(req.paymentHeader)
Paying(req) == req.pc # "none" /\ req.route \in PAID_ROUTES /\ ~Falsy(req.paymentHeader)

\* C33: a request to a paid route without a payment header is answered 402 at once:
\* its handler is not invoked and the facilitator is not contacted for it, whatever the
\* facilitator is doing for other requests.
C33_NoPaymentIs402 ==
    \A r \in RequestIds :
        Unpaid(requests[r]) =>
            /\ requests[r].pc = "done"
            /\ requests[r].status = 402
            /\ ~requests[r].handled
            /\ requests[r].calls = <<>>

C33_Witness ==
    \E r, other \in RequestIds :
        /\ Unpaid(requests[r])
        /\ requests[r].status = 402
        /\ requests[other].pc = "verify"

\* The facilitator's verification succeeded: it answered ok, in JSON, and did not say
\* valid: false. Its settlement succeeded: it answered ok, in JSON.
Verified(req) == Len(req.replies) >= 1 /\ req.replies[1] \in {"validTrue", "noValid"}
Settled(req) == Len(req.replies) >= 2 /\ req.replies[2] = "ok"

\* C37: for a request to a paid route with a payment header, the facilitator is asked
\* to verify and then, only if verification succeeded, to settle; the handler is
\* invoked only after both succeeded, and a request that is done after either failed,
\* or the facilitator could not be reached, was answered 402 with no handler invoked.
C37_HandlerOnlyAfterVerifyThenSettle ==
    \A r \in RequestIds :
        LET req == requests[r] IN
        Paying(req) =>
            /\ req.calls \in {<<"verify">>, <<"verify", "settle">>}
            /\ Len(req.calls) = 2 => Verified(req)
            /\ req.handled => Verified(req) /\ Settled(req) /\ req.status = 200
            /\ (req.pc = "done" /\ ~(Verified(req) /\ Settled(req)))
                  => ~req.handled /\ req.status = 402

C37_Witness ==
    \E r, other \in RequestIds :
        /\ Paying(requests[r]) /\ requests[r].handled
        /\ Paying(requests[other]) /\ requests[other].pc = "done"
        /\ requests[other].replies = <<"validTrue", "unreachable">>

\* A call that failed and did nothing: the caller is told which check failed, nobody is
\* to be paid, and the tables are as they were.
FailedAsNoOp(out) ==
    /\ out.res \in InvalidState \cup {"Escrow not found"}
    /\ out.pay = "none"
    /\ out.escrows = escrows
    /\ out.events = events

\* C34: a lifecycle call on an unknown escrow id, or on an escrow whose status the call's
\* check does not allow, reports the error and changes neither a row nor the log.
C34_FailedPreconditionIsNoOp ==
    \A id \in 1..(MaxEscrows + 1) :
        LET esc == Row(Store, id) IN
        /\ (esc = NotFound \/ ~fundAllowed(esc))
              => FailedAsNoOp(fundEscrowCall(Store, id, "0xdeposit"))
        /\ (esc = NotFound \/ ~deliverAllowed(esc))
              => FailedAsNoOp(deliverEscrowCall(Store, id, "proof"))
        /\ (esc = NotFound \/ ~acceptAllowed(esc))
              => FailedAsNoOp(acceptEscrowCall(Store, id))
        /\ (esc = NotFound \/ ~disputeAllowed(esc))
              => \A d \in Disputers :
                    FailedAsNoOp(disputeEscrowCall(Store, id, d, "not as described"))
        /\ (esc = NotFound \/ ~resolveAllowed(esc))
              => \A w \in Winners :
                    FailedAsNoOp(resolveDisputeCall(Store, id, "ruling", w))

C34_Witness ==
    \E id \in LedgerIds :
        /\ escrows[id].status = "disputed"
        /\ acceptEscrowCall(Store, id).res = "Cannot accept"
        /\ deliverEscrowCall(Store, Len(escrows) + 1, "proof").res = "Escrow not found"

\* A paying call on the open escrow id that succeeds takes out of the contract exactly
\* what the escrow was funded with, and the contract has it.
PaysOutOfFunding(id, out) ==
    out.res = "ok" =>
        /\ out.usdc[Vault] = usdc[Vault] - Funded[id]
        /\ out.usdc[Vault] >= 0

C36_BoundaryCallsExcludeEachOther ==
    \A id \in CreatedVaultIds, c1 \in Callers, c2 \in Callers :
        /\ ~(/\ markDeliveredCall(c1, id, "proof").res = "ok"
             /\ reclaimExpiredCall(c2, id).res = "ok")
        /\ ~(/\ openDisputeCall(c1, id, "not as described").res = "ok"
             /\ claimByTimeoutCall(c2, id).res = "ok")

C36_Witness ==
    \E id \in CreatedVaultIds :
        LET e == vaultEscrows[id] IN
        /\ e.status = "Active"
        /\ now = e.deadline
        /\ markDeliveredCall(e.seller, id, "proof").res = "ok"
        /\ reclaimExpiredCall(e.buyer, id).res = "Deadline not passed"

C39_FeeIsCappedAndAdminLeavesEscrows ==
    /\ [](/\ feeBps <= MAX_FEE
          /\ \A id \in CreatedVaultIds :
                vaultEscrows[id].fee * 10000 <= vaultEscrows[id].amount * MAX_FEE)
    /\ [][ (feeBps' # feeBps \/ arbiter' # arbiter \/ feeRecipient' # feeRecipient)
              => vaultEscrows' = vaultEscrows /\ nextEscrowId' = nextEscrowId
         ]_vars

C39_Witness ==
    \E id \in CreatedVaultIds :
        /\ vaultEscrows[id].status = "Delivered"
        /\ vaultEscrows[id].fee * 10000 = vaultEscrows[id].amount * MAX_FEE
        /\ feeBps = 0
        /\ arbiter = "mallory"
        /\ feeRecipient = "arb"

\* The step recorded a ping of service with the given is_up.
PingRecorded(service, isUp) ==
    /\ Len(pings') = Len(pings) + 1
    /\ pings'[Len(pings')].service_id = service
    /\ pings'[Len(pings')].is_up = isUp

\* C40: whatever pings come back and in whatever order, a service never has two open
\* incidents; no incident disappears or changes service; a step opens an incident of a
\* service only when it records a down ping of it and the service had none open, and
\* closes one only when it records an up ping of it.
C40_AtMostOneOpenIncident ==
    /\ [](\A s \in Services : Cardinality(OpenIncidents(incidents, s)) <= 1)
    /\ [][ /\ Len(incidents') >= Len(incidents)
           /\ \A i \in 1..Len(incidents) :
                 /\ incidents'[i].service_id = incidents[i].service_id
                 /\ incidents'[i].ended_at # incidents[i].ended_at
                       => /\ incidents[i].ended_at = Null
                          /\ PingRecorded(incidents[i].service_id, 1)
           /\ \A i \in (Len(incidents) + 1)..Len(incidents') :
                 /\ incidents'[i].ended_at = Null
                 /\ OpenIncidents(incidents, incidents'[i].service_id) = {}
                 /\ PingRecorded(incidents'[i].service_id, 0)
         ]_vars

C40_Witness ==
    \E s \in Services :
        /\ Cardinality(OpenIncidents(incidents, s)) = 1
        /\ \E other \in Services : inFlight[other] > 0
        /\ \E i, j \in 1..Len(pings) :
              /\ i < j
              /\ pings[i].service_id = s /\ pings[i].is_up = 0
              /\ pings[j].service_id = s /\ pings[j].is_up = 0
              /\ \A k \in (i + 1)..(j - 1) : pings[k].service_id # s
====
